---------------------------- MODULE Spec2Model ----------------------------
(***************************************************************************)
(* Model of denops/@ddu-sources/rust-doc.ts: the doc root locator          *)
(* (findStdDocDir, findCargoProjectDir, findDocDirs), the walker           *)
(* (getDocItems), the per-root cache (genCachedAllDocItemList), the        *)
(* batching adapter (convertdocItems) and the pull-driven stream returned  *)
(* by Source.gather.                                                       *)
(*                                                                         *)
(* A path is a record [abs, segs]: "/a/b" is [abs |-> TRUE,                *)
(* segs |-> <<"a","b">>], "/" has abs and no segment, "." (and "") is the  *)
(* relative path with no segment.  A trailing "/" is not represented.      *)
(***************************************************************************)
EXTENDS Integers, Sequences, FiniteSets, TLC

VARIABLES env, located, cache, walks, streams, parsed

vars == <<env, located, cache, walks, streams, parsed>>

-----------------------------------------------------------------------------
(* Bounds of the model.                                                    *)

\* Deepest starting path handed to the locator: /a/b/c has depth 3.
MaxDepth == 3

\* Longest listing of the toolchains directory.
MaxToolchains == 3

-----------------------------------------------------------------------------
(* Paths (std/path of Deno, POSIX flavour).                                *)

Abs(segs) == [abs |-> TRUE, segs |-> segs]

Rel(segs) == [abs |-> FALSE, segs |-> segs]

\* The value standing for `null` where the code has string | null.
NoPath == [abs |-> FALSE, segs |-> <<"<null>">>]

\* path.dirname: "/" and "." are their own parents.
Dirname(p) ==
    IF p.segs = <<>> THEN p
    ELSE [p EXCEPT !.segs = SubSeq(p.segs, 1, Len(p.segs) - 1)]

\* path.join(p, ...segs)
Join(p, segs) == [p EXCEPT !.segs = p.segs \o segs]

\* path.resolve(p): relative paths are taken from the process's directory.
Resolve(e, p) == IF p.abs THEN p ELSE Abs(e.cwd.segs \o p.segs)

-----------------------------------------------------------------------------
(* The environment: external command, HOME, the toolchains directory and   *)
(* the files that exist.  It does not change while the program runs.       *)

\* fsExists (lines 47-54): a failing stat is "does not exist", never raised.
FsExists(e, p) == Resolve(e, p) \in e.exists

StableNames == {"stable-a", "stable-b"}

NightlyNames == {"nightly-a", "nightly-b"}

\* entry.name.startsWith(prefix) over the names of the model.
StartsWith(name, prefix) ==
    \/ prefix = "stable-" /\ name \in StableNames
    \/ prefix = "nightly-" /\ name \in NightlyNames

ToolChainsSegs == <<".rustup", "toolchains">>

StdDocSegs == <<"share", "doc", "rust", "html">>

TargetDocSegs == <<"target", "doc">>

-----------------------------------------------------------------------------
(* findStdDocDir, lines 14-45.  The result records whether the call raised *)
(* (a rejected promise), whether a directory was returned (found) and      *)
(* which, and log: the searches made, in the order they were made.         *)

\* for await ... if (isDirectory && startsWith("stable-")) { dir = name; break }
RECURSIVE ScanFirst(_, _, _)
ScanFirst(entries, prefix, i) ==
    IF i > Len(entries) THEN ""
    ELSE IF entries[i].isDirectory /\ StartsWith(entries[i].name, prefix)
         THEN entries[i].name
         ELSE ScanFirst(entries, prefix, i + 1)

\* A nightly search that stops at its first match, like the stable one.
ScanLastBreaks(entries, prefix, dir, i) == ScanFirst(entries, prefix, i)

\* for await ... if (isDirectory && startsWith("nightly-")) { dir = name }
RECURSIVE ScanLast(_, _, _, _)
ScanLast(entries, prefix, dir, i) ==
    IF i > Len(entries) THEN dir
    ELSE IF entries[i].isDirectory /\ StartsWith(entries[i].name, prefix)
         THEN ScanLast(entries, prefix, entries[i].name, i + 1)
         ELSE ScanLast(entries, prefix, dir, i + 1)

StdResult(raised, found, dir, log) ==
    [raised |-> raised, found |-> found, dir |-> dir, log |-> log]

\* Lines 25-44: the search below HOME, after the command gave nothing.
StdFallback(e) ==
    IF ~e.homeSet THEN StdResult(FALSE, FALSE, NoPath, <<"cmd">>)
    ELSE IF ~e.tcReadable
         \* Deno.readDir rejects; nothing catches it
         THEN StdResult(TRUE, FALSE, NoPath, <<"cmd", "stable">>)
    ELSE LET st == ScanFirst(e.tcEntries, "stable-", 1) IN
         IF st # ""
         THEN StdResult(FALSE, TRUE, Join(Rel(<<st>>), StdDocSegs),
                        <<"cmd", "stable">>)
         ELSE LET ni == ScanLast(e.tcEntries, "nightly-", "", 1) IN
              IF ni # ""
              THEN StdResult(FALSE, TRUE, Join(Rel(<<ni>>), StdDocSegs),
                             <<"cmd", "stable", "nightly">>)
              ELSE StdResult(FALSE, FALSE, NoPath,
                             <<"cmd", "stable", "nightly">>)

findStdDocDir(e) ==
    IF e.cmd = "ok"
    THEN StdResult(FALSE, TRUE, Dirname(e.cmdOut), <<"cmd">>)
    ELSE StdFallback(e)

-----------------------------------------------------------------------------
(* findCargoProjectDir, lines 56-64.  checked: the directories whose       *)
(* Cargo.toml was looked for, in the order of the checks.                  *)

\* An upward search that prefers the farthest ancestor holding the marker.
RECURSIVE findCargoProjectDirFarthest(_, _)
findCargoProjectDirFarthest(e, p) ==
    IF p.segs = <<>>
    THEN [found |-> FALSE, dir |-> NoPath, checked |-> <<>>]
    ELSE LET r == findCargoProjectDirFarthest(e, Dirname(p)) IN
         IF ~r.found /\ FsExists(e, Join(p, <<"Cargo.toml">>))
         THEN [found |-> TRUE, dir |-> Resolve(e, p), checked |-> <<p>>]
         ELSE [r EXCEPT !.checked = <<p>> \o @]

\* An upward search that looks for the marker in "/" and "." as well.
RECURSIVE findCargoProjectDirChecksRoot(_, _)
findCargoProjectDirChecksRoot(e, p) ==
    IF FsExists(e, Join(p, <<"Cargo.toml">>))
    THEN [found |-> TRUE, dir |-> Resolve(e, p), checked |-> <<p>>]
    ELSE IF p.segs = <<>>
         THEN [found |-> FALSE, dir |-> NoPath, checked |-> <<p>>]
         ELSE LET r == findCargoProjectDirChecksRoot(e, Dirname(p)) IN
              [r EXCEPT !.checked = <<p>> \o @]

RECURSIVE findCargoProjectDir(_, _)
findCargoProjectDir(e, p) ==
    IF p.segs = <<>>
    THEN [found |-> FALSE, dir |-> NoPath, checked |-> <<>>]
    ELSE IF FsExists(e, Join(p, <<"Cargo.toml">>))
         THEN [found |-> TRUE, dir |-> Resolve(e, p), checked |-> <<p>>]
         ELSE LET r == findCargoProjectDir(e, Dirname(p)) IN
              [r EXCEPT !.checked = <<p>> \o @]

-----------------------------------------------------------------------------
(* findDocDirs, lines 66-80.                                               *)

findDocDirs(e, p) ==
    LET std == findStdDocDir(e) IN
    IF std.raised
    THEN [raised |-> TRUE, docs |-> <<>>, std |-> std,
          proj |-> [found |-> FALSE, dir |-> NoPath, checked |-> <<>>]]
    ELSE LET d1 == IF std.found /\ FsExists(e, std.dir)
                   THEN <<std.dir>> ELSE <<>>
             proj == findCargoProjectDir(e, p)
             docDir == Join(proj.dir, TargetDocSegs)
             d2 == IF proj.found /\ FsExists(e, docDir)
                   THEN <<docDir>> ELSE <<>>
         IN [raised |-> FALSE, docs |-> d1 \o d2, std |-> std, proj |-> proj]

-----------------------------------------------------------------------------
(* Environments and starting paths of the locator's specification.         *)

HomeDir == Abs(<<"home">>)

PathPool == <<"a", "b", "c", "d">>

\* /a, /a/b, /a/b/c ...
Anc(k) == Abs(SubSeq(PathPool, 1, k))

StartPaths ==
    {Anc(k) : k \in 0..MaxDepth} \cup {Rel(<<>>), Rel(<<"b">>), Rel(<<"b", "c">>)}

ToolchainDirNames == StableNames \cup NightlyNames \cup {"other"}

\* Listings of the toolchains directory: the order is the order readDir
\* enumerates them in.  "stable-b" is also listed as a plain file.
Listings ==
    {<<>>}
    \cup {<<[name |-> n, isDirectory |-> TRUE]>> : n \in ToolchainDirNames}
    \cup {<<[name |-> n1, isDirectory |-> TRUE],
            [name |-> n2, isDirectory |-> TRUE]>> :
              n1 \in {"stable-a", "nightly-a", "other"},
              n2 \in {"stable-b", "nightly-b"}}
    \cup {<<[name |-> "stable-b", isDirectory |-> FALSE],
            [name |-> "nightly-a", isDirectory |-> TRUE]>> \o
          [i \in 1..(MaxToolchains - 2) |->
              [name |-> "nightly-b", isDirectory |-> TRUE]]}
    \cup {<<[name |-> "nightly-b", isDirectory |-> TRUE],
            [name |-> "stable-b", isDirectory |-> TRUE]>> \o
          [i \in 1..(MaxToolchains - 2) |->
              [name |-> "stable-a", isDirectory |-> TRUE]]}

StdIndexFile == Abs(<<"std", "index.html">>)

\* The absolute place of the standard docs of toolchain n below HOME.
ToolchainDoc(n) == Join(Join(Join(HomeDir, ToolChainsSegs), <<n>>), StdDocSegs)

\* Files and directories that may exist.
ExistSets ==
    {m \cup d \cup s :
        m \in SUBSET {Join(Anc(0), <<"Cargo.toml">>),
                      Join(Anc(1), <<"Cargo.toml">>),
                      Join(Anc(MaxDepth), <<"Cargo.toml">>)},
        d \in SUBSET {Join(Anc(1), TargetDocSegs),
                      Join(Anc(MaxDepth), TargetDocSegs)},
        s \in {{}, {Abs(<<"std">>)},
               {ToolchainDoc(n) : n \in StableNames \cup NightlyNames}}}

NoTree == [r \in {} |-> <<>>]

LocEnvs ==
    [cmd : {"throw", "nonzero", "ok"},
     cmdOut : {StdIndexFile},
     homeSet : BOOLEAN,
     home : {HomeDir},
     tcReadable : BOOLEAN,
     tcEntries : Listings,
     exists : ExistSets,
     cwd : {Anc(1)},
     tree : {NoTree},
     gathers : {0}]

NotLocated ==
    [done |-> FALSE, path |-> NoPath,
     cargo |-> [found |-> FALSE, dir |-> NoPath, checked |-> <<>>],
     res |-> [raised |-> FALSE, docs |-> <<>>,
              std |-> StdResult(FALSE, FALSE, NoPath, <<>>),
              proj |-> [found |-> FALSE, dir |-> NoPath, checked |-> <<>>]]]

\* Nothing walked and nothing presented yet.
NotParsed == [op |-> "none", yields |-> <<>>, input |-> <<>>, ddu |-> <<>>]

InitLoc ==
    /\ env \in LocEnvs
    /\ located = NotLocated
    /\ cache = NoTree
    /\ walks = NoTree
    /\ streams = <<>>
    /\ parsed = NotParsed

\* One call findDocDirs(p) and one call findCargoProjectDir(p), their
\* outcomes kept in located.
Locate(p) ==
    /\ ~located.done
    /\ located' = [done |-> TRUE, path |-> p,
                   cargo |-> findCargoProjectDir(env, p),
                   res |-> findDocDirs(env, p)]
    /\ UNCHANGED <<env, cache, walks, streams, parsed>>

NextLoc == \E p \in StartPaths : Locate(p)

SpecLoc == InitLoc /\ [][NextLoc]_vars

-----------------------------------------------------------------------------
(* The walker, getDocItems (lines 109-143).  A doc root's tree is the      *)
(* sequence of entries walk() enumerates, in its order; an entry has its   *)
(* directory relative to the root (what stripDir leaves) and its file name *)
(* cut at the dots: "struct.Foo.html" is <<"struct", "Foo", "html">>.      *)

Entry(dir, base) == [isFile |-> TRUE, dir |-> dir, base |-> base]

DocItem(kind, hasModule, module, name, docDir) ==
    [kind |-> kind, hasModule |-> hasModule, module |-> module,
     name |-> name, docDir |-> docDir]

\* An index page parser whose enclosing module is never null: a
\* first-level module gets the empty module instead.
IndexItemNeverNull(docDir, en) ==
    IF en.dir = <<>> THEN <<>>
    ELSE <<DocItem("module", TRUE,
                   SubSeq(en.dir, 1, Len(en.dir) - 1),
                   en.dir[Len(en.dir)], docDir)>>

\* Lines 116-128: the item of an index.html in directory en.dir.  The
\* root's own index.html yields none, a first-level one has module: null.
IndexItem(docDir, en) ==
    IF en.dir = <<>> THEN <<>>
    ELSE <<DocItem("module", Len(en.dir) > 1,
                   SubSeq(en.dir, 1, Len(en.dir) - 1),
                   en.dir[Len(en.dir)], docDir)>>

\* Lines 130-139: the regular expression takes the last two dot-separated
\* parts before "html", whatever stands in front of them; the module is
\* dirname(p), which is "." for a file at the root.
FileItem(docDir, en) ==
    LET n == Len(en.base) IN
    IF n >= 3 /\ en.base[n] = "html"
    THEN <<DocItem(en.base[n - 2], TRUE,
                   IF en.dir = <<>> THEN <<".">> ELSE en.dir,
                   en.base[n - 1], docDir)>>
    ELSE <<>>

\* Lines 113-141 for one entry: the items it yields, none or one.
\* hasModule = FALSE is module: null; the module "a::b" is <<"a", "b">>.
ParseEntry(docDir, en) ==
    IF ~en.isFile THEN <<>>
    ELSE IF en.dir # <<>> /\ en.dir[1] = "src" THEN <<>>
    ELSE IF en.base = <<"index", "html">> THEN IndexItem(docDir, en)
    ELSE FileItem(docDir, en)

Tree(e, root) == IF root \in DOMAIN e.tree THEN e.tree[root] ELSE <<>>

\* Position of the first entry after pos that yields an item; 0 when the
\* walk ends without one.
RECURSIVE NextYield(_, _, _)
NextYield(docDir, tree, pos) ==
    IF pos >= Len(tree) THEN 0
    ELSE IF ParseEntry(docDir, tree[pos + 1]) # <<>> THEN pos + 1
    ELSE NextYield(docDir, tree, pos + 1)

\* All that one complete walk of root yields: the items of the entries
\* that yield one, in the order of the walk.
getDocItems(e, root) ==
    LET yielding == SelectSeq(Tree(e, root),
                              LAMBDA en : ParseEntry(root, en) # <<>>)
    IN [i \in 1..Len(yielding) |-> ParseEntry(root, yielding[i])[1]]

-----------------------------------------------------------------------------
(* Presentation: getDocItemFilePath (175-186), docItemToDduItem (188-204). *)

ITEM_KINDS ==
    <<"module", "struct", "trait", "macro", "fn", "type", "enum", "keyword",
      "constant", "primitive", "traitalias">>

RECURSIVE MaxLen(_, _)
MaxLen(kinds, i) ==
    IF i > Len(kinds) THEN 0
    ELSE LET m == MaxLen(kinds, i + 1) IN
         IF Len(kinds[i]) > m THEN Len(kinds[i]) ELSE m

\* path.join drops "." segments.
JoinModule(p, module) == Join(p, SelectSeq(module, LAMBDA x : x # "."))

getDocItemFilePath(a) ==
    LET dir == IF a.hasModule THEN JoinModule(a.docDir, a.module)
               ELSE a.docDir
    IN IF a.kind = "module"
       THEN [dir |-> Join(dir, <<a.name>>), base |-> <<"index", "html">>]
       ELSE [dir |-> dir, base |-> <<a.kind, a.name, "html">>]

docItemToDduItem(a) ==
    LET kindWidth == MaxLen(ITEM_KINDS, 1)
        pad == IF kindWidth - Len(a.kind) > 0
               THEN kindWidth - Len(a.kind) ELSE 0
    IN [word |-> a.name,
        display |-> [kind |-> a.kind, padding |-> pad,
                     prefix |-> IF a.hasModule THEN <<a.module>> ELSE <<>>,
                     name |-> a.name],
        action |-> [kind |-> a.kind, hasModule |-> a.hasModule,
                    module |-> a.module, name |-> a.name,
                    url |-> getDocItemFilePath(a)]]

-----------------------------------------------------------------------------
(* The streams of Source.gather (lines 226-251).  Each stream owns one     *)
(* convertdocItems generator over one genCachedAllDocItemList generator.   *)
(*                                                                         *)
(*   path     bufPath, the starting path of the query                      *)
(*   started  start() has run to its end                                   *)
(*   items    "null" or "set": the variable items of gather                *)
(*   gen      where genCachedAllDocItemList stands: "init" before          *)
(*            findDocDirs, "loop" at the head of the for loop, "replay" in *)
(*            the cache-hit branch, "walk" in the other, "done", "failed"  *)
(*   docDirs, di, pos   the roots, the index of the current one, and the   *)
(*            number of bucket items replayed or of tree entries walked    *)
(*   conv     where convertdocItems stands: "run", "full" (suspended at    *)
(*            the yield of line 213, pending holding the item a), "last"   *)
(*            (suspended at the yield of line 219), "done"                 *)
(*   buf      the array buf                                                *)
(*   pulling  a pull() is in flight                                        *)
(*   chunks   what each enqueued batch held when it was enqueued; every    *)
(*            enqueued batch is the array buf itself                       *)
(*   closed   controller.close() was called                                *)
(*   failure  "" or why pull() raised: "uninitialized" for the error of   *)
(*            line 242, "findDocDirs" for a locator that raised; a stream  *)
(*            whose pull() raised is errored and is not pulled again       *)
(*   out      every item genCachedAllDocItemList yielded, in order         *)
(*   hits     the roots taken in the cache-hit branch                      *)
(*   late     those of hits whose walking query had closed before          *)

BUFFER_SIZE == 1024

\* Streams one environment may open.
MaxStreams == 2

NewStream(p) ==
    [path |-> p, started |-> FALSE, items |-> "null", gen |-> "init",
     docDirs |-> <<>>, di |-> 1, pos |-> 0, conv |-> "run", buf |-> <<>>,
     pending |-> <<>>, pulling |-> FALSE, chunks |-> <<>>, closed |-> FALSE,
     failure |-> "", out |-> <<>>, hits |-> {}, late |-> {}]

Streams == DOMAIN streams

\* gather(): a new stream; its start() has begun and awaits the editor.
Gather(p) ==
    /\ Len(streams) < env.gathers
    /\ streams' = Append(streams, NewStream(p))
    /\ UNCHANGED <<env, located, cache, walks, parsed>>

\* A start() that returns without storing the iterator.
startForgets(st) == [st EXCEPT !.started = TRUE]

\* start(), lines 233-240, at its end: items = convertdocItems(...).
start(st) == [st EXCEPT !.started = TRUE, !.items = "set"]

Start(s) ==
    /\ ~streams[s].started
    /\ streams' = [streams EXCEPT ![s] = start(@)]
    /\ UNCHANGED <<env, located, cache, walks, parsed>>

\* A capacity test that lets the buffer grow one entry too far.
BufferFullLate(buf) == Len(buf) > BUFFER_SIZE

\* Line 212.
BufferFull(buf) == Len(buf) >= BUFFER_SIZE

\* convertdocItems receives item a from its source (lines 211-216): a full
\* buffer is yielded first, and pull() enqueues it (line 247).
Deliver(st, a) ==
    IF BufferFull(st.buf)
    THEN [st EXCEPT !.conv = "full", !.pending = <<a>>, !.pulling = FALSE,
                    !.chunks = Append(@, st.buf), !.out = Append(@, a)]
    ELSE [st EXCEPT !.buf = Append(@, docItemToDduItem(a)),
                    !.out = Append(@, a)]

\* The source is exhausted (lines 218-220), and pull() enqueues the last
\* batch or closes (lines 244-248).
Exhausted(st) ==
    IF Len(st.buf) > 0
    THEN [st EXCEPT !.gen = "done", !.conv = "last", !.pulling = FALSE,
                    !.chunks = Append(@, st.buf)]
    ELSE [st EXCEPT !.gen = "done", !.conv = "done", !.pulling = FALSE,
                    !.closed = TRUE]

\* pull(), lines 241-243, up to the first suspension of items.next().
pull(st) ==
    IF st.items = "null"
    THEN [st EXCEPT !.failure = "uninitialized"]
    ELSE IF st.conv = "full"
         \* lines 214-216: buf.splice(0, buf.length); buf.push(...)
         THEN [st EXCEPT !.conv = "run", !.pulling = TRUE,
                         !.buf = <<docItemToDduItem(st.pending[1])>>,
                         !.pending = <<>>]
    ELSE IF st.conv = "last"
         THEN [st EXCEPT !.conv = "done", !.closed = TRUE]
    ELSE [st EXCEPT !.pulling = TRUE]

Pull(s) ==
    /\ ~streams[s].pulling
    /\ ~streams[s].closed
    /\ streams[s].failure = ""
    /\ streams' = [streams EXCEPT ![s] = pull(@)]
    /\ UNCHANGED <<env, located, cache, walks, parsed>>

\* The mutable state the generators work on.
World == [streams |-> streams, cache |-> cache, walks |-> walks]

Apply(w) ==
    /\ streams' = w.streams
    /\ cache' = w.cache
    /\ walks' = w.walks
    /\ UNCHANGED <<env, located, parsed>>

\* Line 150: await findDocDirs(p).  When it raises, so does pull().
findDirsStep(w, s) ==
    LET r == findDocDirs(env, w.streams[s].path) IN
    [w EXCEPT !.streams[s] =
        IF r.raised
        THEN [@ EXCEPT !.gen = "failed", !.conv = "done",
                       !.pulling = FALSE, !.failure = "findDocDirs"]
        ELSE [@ EXCEPT !.gen = "loop", !.docDirs = r.docs]]

\* A test that takes an empty bucket for a missing one.
InCacheNonEmpty(c, dir) == dir \in DOMAIN c /\ c[dir] # <<>>

\* Line 152: dir in cache.
InCache(c, dir) == dir \in DOMAIN c

\* Have all the queries that started a walk of dir closed?
WalkersClosed(w, dir) ==
    /\ dir \in DOMAIN w.walks
    /\ \A i \in 1..Len(w.walks[dir]) : w.streams[w.walks[dir][i]].closed

\* Lines 151-157: the head of the loop over docDirs.  The test of line 152,
\* the assignment of line 157 and the call of getDocItems run without
\* suspension between them.
nextDirStep(w, s) ==
    LET st == w.streams[s]
        dir == st.docDirs[st.di]
    IN IF st.di > Len(st.docDirs)
       THEN [w EXCEPT !.streams[s] = Exhausted(@)]
       ELSE IF InCache(w.cache, dir)
       THEN [w EXCEPT !.streams[s] =
                [@ EXCEPT !.gen = "replay", !.pos = 0,
                          !.hits = @ \cup {dir},
                          !.late = @ \cup IF WalkersClosed(w, dir)
                                          THEN {dir} ELSE {}]]
       ELSE [streams |-> [w.streams EXCEPT ![s] =
                             [@ EXCEPT !.gen = "walk", !.pos = 0]],
             cache |-> [r \in DOMAIN w.cache \cup {dir} |->
                           IF r = dir THEN <<>> ELSE w.cache[r]],
             walks |-> [r \in DOMAIN w.walks \cup {dir} |->
                           IF r \in DOMAIN w.walks
                           THEN IF r = dir THEN Append(w.walks[r], s)
                                ELSE w.walks[r]
                           ELSE <<s>>]]

\* A replay that reads the bucket from its end.
ReplayItemReversed(bucket, pos) == bucket[Len(bucket) - pos]

\* Line 153: the item the iteration of cache[dir] gives after pos items.
ReplayItem(bucket, pos) == bucket[pos + 1]

\* Lines 153-155: one turn of the replay of cache[dir], the array as it is
\* now; at its end the loop goes on to the next root.
replayStep(w, s) ==
    LET st == w.streams[s]
        dir == st.docDirs[st.di]
    IN [w EXCEPT !.streams[s] =
           IF st.pos < Len(w.cache[dir])
           THEN Deliver([@ EXCEPT !.pos = @ + 1],
                        ReplayItem(w.cache[dir], st.pos))
           ELSE [@ EXCEPT !.gen = "loop", !.di = @ + 1]]

\* A walk that stores each item in place of the bucket.
walkStepOverwrites(w, s) ==
    LET st == w.streams[s]
        dir == st.docDirs[st.di]
        j == NextYield(dir, Tree(env, dir), st.pos)
    IN IF j = 0
       THEN [w EXCEPT !.streams[s] = [@ EXCEPT !.gen = "loop", !.di = @ + 1]]
       ELSE LET a == ParseEntry(dir, Tree(env, dir)[j])[1] IN
            [w EXCEPT !.cache[dir] = <<a>>,
                      !.streams[s] = Deliver([@ EXCEPT !.pos = j], a)]

\* Lines 158-161: getDocItems runs to its next item, which is pushed to the
\* bucket and yielded; at the end of the walk the loop goes on.
walkStep(w, s) ==
    LET st == w.streams[s]
        dir == st.docDirs[st.di]
        j == NextYield(dir, Tree(env, dir), st.pos)
    IN IF j = 0
       THEN [w EXCEPT !.streams[s] = [@ EXCEPT !.gen = "loop", !.di = @ + 1]]
       ELSE LET a == ParseEntry(dir, Tree(env, dir)[j])[1] IN
            [w EXCEPT !.cache[dir] = Append(@, a),
                      !.streams[s] = Deliver([@ EXCEPT !.pos = j], a)]

FindDirs(s) ==
    /\ streams[s].pulling
    /\ streams[s].gen = "init"
    /\ Apply(findDirsStep(World, s))

NextDir(s) ==
    /\ streams[s].pulling
    /\ streams[s].gen = "loop"
    /\ Apply(nextDirStep(World, s))

Replay(s) ==
    /\ streams[s].pulling
    /\ streams[s].gen = "replay"
    /\ Apply(replayStep(World, s))

Walk(s) ==
    /\ streams[s].pulling
    /\ streams[s].gen = "walk"
    /\ Apply(walkStep(World, s))

\* The step of stream s that is enabled while its pull() is in flight.
Step(w, s) ==
    LET st == w.streams[s] IN
    IF ~st.pulling THEN w
    ELSE IF st.gen = "init" THEN findDirsStep(w, s)
    ELSE IF st.gen = "loop" THEN nextDirStep(w, s)
    ELSE IF st.gen = "replay" THEN replayStep(w, s)
    ELSE IF st.gen = "walk" THEN walkStep(w, s)
    ELSE w

\* Up to k steps of stream s, none of another stream between them, ending
\* early when the pull() in flight has enqueued, closed or raised.
RECURSIVE Run(_, _, _)
Run(w, s, k) ==
    IF k = 0 \/ ~w.streams[s].pulling THEN w
    ELSE IF k = 1 THEN Step(w, s)
    ELSE LET half == Run(w, s, k \div 2) IN Run(half, s, k - (k \div 2))

\* pull() (lines 241-249) from its call to its end, when no step of
\* another query falls before its end: the steps above, taken in a row.
PullToEnd(s) ==
    /\ ~streams[s].pulling
    /\ ~streams[s].closed
    /\ streams[s].failure = ""
    /\ streams[s].items = "set"
    /\ Apply(Run([World EXCEPT !.streams[s] = pull(@)], s, 4 * BUFFER_SIZE))

-----------------------------------------------------------------------------
(* Environments of the streams' specifications.                            *)

\* Entries one root may hold, in walk order.
MaxFiles == 3

FilePool ==
    <<Entry(<<>>, <<"struct", "Foo", "html">>),
      Entry(<<"a">>, <<"index", "html">>),
      Entry(<<>>, <<"index", "html">>),
      Entry(<<"a", "b">>, <<"fn", "bar", "html">>),
      Entry(<<"src", "a">>, <<"lib", "rs", "html">>),
      Entry(<<"a">>, <<"enum", "E", "html">>)>>

ProjectFiles ==
    <<Entry(<<"src">>, <<"fn", "main", "html">>),
      Entry(<<"p">>, <<"trait", "T", "html">>)>>

StdRoot == Abs(<<"std">>)

ProjRoot(k) == Join(Anc(k), TargetDocSegs)

\* The standard root holds the first k entries of the pool.
SmallTree(k) ==
    [r \in {StdRoot, ProjRoot(1), ProjRoot(MaxDepth)} |->
        IF r = StdRoot THEN SubSeq(FilePool, 1, k)
        ELSE IF r = ProjRoot(1) THEN ProjectFiles
        ELSE <<>>]

SmallTrees == {SmallTree(k) : k \in 0..MaxFiles}

AllProjects ==
    {Join(Anc(1), <<"Cargo.toml">>), Join(Anc(MaxDepth), <<"Cargo.toml">>),
     ProjRoot(1), ProjRoot(MaxDepth)}

StreamEnv(cmd, homeSet, exists, tree, gathers) ==
    [cmd |-> cmd, cmdOut |-> StdIndexFile, homeSet |-> homeSet,
     home |-> HomeDir, tcReadable |-> FALSE, tcEntries |-> <<>>,
     exists |-> exists, cwd |-> Anc(1), tree |-> tree, gathers |-> gathers]

StreamEnvs ==
    {StreamEnv("ok", TRUE, AllProjects \cup {StdRoot}, t, MaxStreams) :
        t \in SmallTrees}
    \cup {StreamEnv("nonzero", FALSE, AllProjects, t, MaxStreams) :
        t \in {SmallTree(0)}}
    \cup {StreamEnv("throw", TRUE, AllProjects, t, MaxStreams) :
        t \in {SmallTree(0)}}

StreamPaths == {Anc(1), Anc(MaxDepth)}

Init ==
    /\ env \in StreamEnvs
    /\ located = NotLocated
    /\ cache = NoTree
    /\ walks = NoTree
    /\ streams = <<>>
    /\ parsed = NotParsed

Next ==
    \/ \E p \in StreamPaths : Gather(p)
    \/ \E s \in Streams : Start(s)
    \/ \E s \in Streams : Pull(s)
    \/ \E s \in Streams : PullToEnd(s)
    \/ \E s \in Streams : FindDirs(s)
    \/ \E s \in Streams : NextDir(s)
    \/ \E s \in Streams : Replay(s)
    \/ \E s \in Streams : Walk(s)

Spec == Init /\ [][Next]_vars

\* One query over one large root: n entries of the form struct.<i>.html.
BigTree(n) ==
    [r \in {StdRoot} |->
        [i \in 1..n |-> Entry(<<>>, <<"struct", ToString(i), "html">>)]]

BatchSizes ==
    {0, 1, BUFFER_SIZE - 1, BUFFER_SIZE, BUFFER_SIZE + 1,
     2 * BUFFER_SIZE - 1, 2 * BUFFER_SIZE, 2 * BUFFER_SIZE + 1}

InitBatch ==
    /\ env \in {StreamEnv("ok", TRUE, {StdRoot}, BigTree(n), 1) :
                    n \in BatchSizes}
    /\ located = NotLocated
    /\ cache = NoTree
    /\ walks = NoTree
    /\ streams = <<>>
    /\ parsed = NotParsed

\* With a single query and distinct roots no root is ever found in the
\* cache, so the replay has no step to take.
NextBatch ==
    \/ Gather(Anc(1))
    \/ \E s \in Streams : Start(s)
    \/ \E s \in Streams : Pull(s)
    \/ \E s \in Streams : PullToEnd(s)
    \/ \E s \in Streams : FindDirs(s)
    \/ \E s \in Streams : NextDir(s)
    \/ \E s \in Streams : Walk(s)

SpecBatch == InitBatch /\ [][NextBatch]_vars

-----------------------------------------------------------------------------
(* Properties of the cache and of the streams.                             *)

\* What stream record st was yielded for root r, in order.
OutFor(st, r) == SelectSeq(st.out, LAMBDA a : a.docDir = r)

\* The loop of st over its roots has gone past root r.
FinishedRoot(st, r) ==
    \E i \in 1..Len(st.docDirs) : st.docDirs[i] = r /\ i < st.di

\* C1: once a root's key is in the cache its value is complete: a query
\* that finds the root in the cache replays all that a walk of the root
\* yields, whatever queries came before.
CacheHitReplaysFullWalk ==
    \A s \in Streams :
        \A r \in streams[s].hits :
            FinishedRoot(streams[s], r) =>
                OutFor(streams[s], r) = getDocItems(env, r)

\* C2: a query that reaches a root after the query that walked it has been
\* pulled to its end is yielded the same items in the same order as that
\* first query, and the root is not walked again.
SecondQueryIdempotent ==
    \A s \in Streams :
        \A r \in streams[s].late :
            FinishedRoot(streams[s], r) =>
                /\ Len(walks[r]) = 1
                /\ walks[r][1] # s
                /\ OutFor(streams[s], r) = OutFor(streams[walks[r][1]], r)

\* C2's case: a second query has replayed a root of two items or more that
\* a first, closed query walked.
SecondQueryIdempotentWitness ==
    \E s \in Streams :
        \E r \in streams[s].late :
            /\ FinishedRoot(streams[s], r)
            /\ streams[walks[r][1]].closed
            /\ Len(OutFor(streams[s], r)) >= 2

\* C3: getDocItems is started at most once for each root, whatever the
\* interleaving of the queries.
WalkedAtMostOnce == \A r \in DOMAIN walks : Len(walks[r]) <= 1

\* C3's case: a second query reaches a root while the walk of the first is
\* suspended part-way, and takes the cache-hit branch.
WalkedAtMostOnceWitness ==
    \E s, t \in Streams :
        LET st == streams[s] IN
        /\ s # t
        /\ st.gen = "walk"
        /\ st.pos > 0
        /\ st.docDirs[st.di] \in streams[t].hits
        /\ walks[st.docDirs[st.di]] = <<s>>

CeilDiv(n, d) == (n + d - 1) \div d

RECURSIVE Concat(_, _)
Concat(seqs, i) ==
    IF i > Len(seqs) THEN <<>> ELSE seqs[i] \o Concat(seqs, i + 1)

Sizes(chunks) == [i \in 1..Len(chunks) |-> Len(chunks[i])]

\* C4: n source items give ceil(n / 1024) batches; each but the last holds
\* 1024 entries, the last between 1 and 1024, none is empty; the batches
\* put end to end are the mapped source items in source order.  2048 items
\* give 1024 and 1024; 1025 items give 1024 and 1.
BatchingExact ==
    \A s \in Streams :
        LET st == streams[s]
            n == Len(st.out)
            k == Len(st.chunks)
        IN /\ \A i \in 1..k : Len(st.chunks[i]) \in 1..BUFFER_SIZE
           /\ \A i \in 1..(k - 1) : Len(st.chunks[i]) = BUFFER_SIZE
           /\ st.closed =>
                  /\ st.out = getDocItems(env, StdRoot)
                  /\ k = CeilDiv(n, BUFFER_SIZE)
                  /\ Concat(st.chunks, 1) =
                         [i \in 1..n |-> docItemToDduItem(st.out[i])]
                  /\ n = 2048 => Sizes(st.chunks) = <<1024, 1024>>
                  /\ n = 1025 => Sizes(st.chunks) = <<1024, 1>>

\* C4's case: 2048 items have been batched and the stream is closed.
BatchingExactWitness ==
    \E s \in Streams :
        /\ streams[s].closed
        /\ Len(streams[s].out) = 2 * BUFFER_SIZE
        /\ Len(streams[s].chunks) = 2

\* C6: a pull made before start() has stored the iterator raises
\* "uninitialized items iterator" and enqueues nothing; once start() has
\* completed no pull raises that error.
PullBeforeStartRaises ==
    [][\A s \in Streams :
          /\ (Pull(s) /\ ~streams[s].started) =>
                 /\ streams'[s].failure = "uninitialized"
                 /\ streams'[s].chunks = <<>>
                 /\ ~streams'[s].pulling
          /\ (streams[s].started /\ streams[s].failure = "") =>
                 streams'[s].failure # "uninitialized"]_vars

\* C6's case: a stream was pulled before its start() completed, and
\* another was pulled after.
PullBeforeStartRaisesWitness ==
    \E s, t \in Streams :
        /\ streams[s].failure = "uninitialized"
        /\ streams[s].chunks = <<>>
        /\ streams[t].started
        /\ streams[t].failure = ""
        /\ streams[t].chunks # <<>>

-----------------------------------------------------------------------------
(* Properties of the locator, checked under SpecLoc.                       *)

\* C5: the doc root locator never fails: whatever the command, HOME, the
\* toolchains directory and the marker files are, findDocDirs returns a
\* list and does not raise to its caller.
LocatorNeverRaises == located.done => ~located.res.raised

\* What findDocDirs is to return for the project, from the project search
\* alone: the doc directory of the closest project, when it exists.
ProjectPart(e, p) ==
    LET proj == findCargoProjectDir(e, p) IN
    IF proj.found /\ FsExists(e, Join(proj.dir, TargetDocSegs))
    THEN <<Join(proj.dir, TargetDocSegs)>> ELSE <<>>

\* What findDocDirs is to return for the standard library, from the
\* standard-library search alone.
StdPart(e) ==
    LET std == findStdDocDir(e) IN
    IF ~std.raised /\ std.found /\ FsExists(e, std.dir)
    THEN <<std.dir>> ELSE <<>>

\* C7: findDocDirs returns at most two directories, the standard-library
\* root first and the project root second; each is in the list exactly when
\* it was found and exists, and a missing one changes nothing for the other.
DocDirsIndependentParts ==
    located.done =>
        /\ Len(located.res.docs) <= 2
        /\ located.res.docs = StdPart(env) \o ProjectPart(env, located.path)

\* Positions of the directories of a listing whose name has the prefix.
MatchingDirs(entries, prefix) ==
    {i \in 1..Len(entries) :
        entries[i].isDirectory /\ StartsWith(entries[i].name, prefix)}

SetMin(S) == CHOOSE x \in S : \A y \in S : x <= y

SetMax(S) == CHOOSE x \in S : \A y \in S : x >= y

\* C8: the command is tried first; the toolchains directory is searched
\* only after the command failed; the nightly search runs only after the
\* stable search ran and matched nothing; the stable search takes the first
\* directory enumerated, the nightly search the last.
StdFallbackOrder ==
    located.done =>
        LET std == located.res.std
            log == std.log
            st == MatchingDirs(env.tcEntries, "stable-")
            ni == MatchingDirs(env.tcEntries, "nightly-")
            searched == env.cmd # "ok" /\ env.homeSet /\ env.tcReadable
        IN /\ log # <<>> /\ log[1] = "cmd"
           /\ (\E i \in 1..Len(log) : log[i] = "stable") =>
                  env.cmd # "ok" /\ log[2] = "stable"
           /\ (\E i \in 1..Len(log) : log[i] = "nightly") =>
                  /\ log = <<"cmd", "stable", "nightly">>
                  /\ st = {}
           /\ env.cmd = "ok" => log = <<"cmd">> /\ std.found
           /\ (searched /\ st # {}) =>
                  /\ std.found
                  /\ std.dir.segs[1] = env.tcEntries[SetMin(st)].name
                  /\ log = <<"cmd", "stable">>
           /\ (searched /\ st = {} /\ ni # {}) =>
                  /\ std.found
                  /\ std.dir.segs[1] = env.tcEntries[SetMax(ni)].name
           /\ (searched /\ st = {} /\ ni = {}) => ~std.found

\* C8's case: the command failed, no stable directory, two nightly ones.
StdFallbackOrderWitness ==
    /\ located.done
    /\ env.cmd = "nonzero" /\ env.homeSet /\ env.tcReadable
    /\ MatchingDirs(env.tcEntries, "stable-") = {}
    /\ Cardinality(MatchingDirs(env.tcEntries, "nightly-")) >= 2
    /\ env.tcEntries[1].name = "stable-b"
    /\ located.res.std.found
    /\ located.res.std.dir.segs[1] = "nightly-b"

\* C9: a toolchain directory N found below HOME/.rustup/toolchains gives
\* the root HOME/.rustup/toolchains/N/share/doc/rust/html; with HOME unset,
\* or no directory matching, the result is null.
StdRootBelowToolchain ==
    (located.done /\ env.cmd # "ok") =>
        LET std == located.res.std
            st == MatchingDirs(env.tcEntries, "stable-")
            ni == MatchingDirs(env.tcEntries, "nightly-")
        IN /\ std.found =>
                \E i \in st \cup ni :
                    std.dir = Join(Join(Join(env.home, ToolChainsSegs),
                                        <<env.tcEntries[i].name>>), StdDocSegs)
           /\ (~env.homeSet \/ st \cup ni = {}) => ~std.found

\* The k-th ancestor of p.
Ancestor(p, k) == [p EXCEPT !.segs = SubSeq(p.segs, 1, Len(p.segs) - k)]

HasMarker(e, p) == FsExists(e, Join(p, <<"Cargo.toml">>))

\* C10: the marker is looked for in p, then in each parent in turn; the
\* search returns the closest directory holding it and checks nothing above.
UpwardSearchOrder ==
    located.done =>
        LET r == located.cargo
            p == located.path
            n == Len(r.checked)
        IN /\ n <= Len(p.segs)
           /\ \A i \in 1..n : r.checked[i] = Ancestor(p, i - 1)
           /\ \A i \in 1..(n - 1) : ~HasMarker(env, r.checked[i])
           /\ r.found =>
                  /\ n >= 1
                  /\ HasMarker(env, r.checked[n])
                  /\ r.dir = Resolve(env, r.checked[n])
           /\ ~r.found =>
                  /\ n = Len(p.segs)
                  /\ \A i \in 1..n : ~HasMarker(env, r.checked[i])

\* C10's case: from /a/b/c with the marker at /a only, the checks are
\* /a/b/c, /a/b, /a and the result is /a.
UpwardSearchOrderWitness ==
    /\ located.done
    /\ located.path = Abs(<<"a", "b", "c">>)
    /\ ~HasMarker(env, Abs(<<"a", "b", "c">>))
    /\ HasMarker(env, Abs(<<"a">>))
    /\ located.cargo.checked =
           <<Abs(<<"a", "b", "c">>), Abs(<<"a", "b">>), Abs(<<"a">>)>>
    /\ located.cargo.found
    /\ located.cargo.dir = Abs(<<"a">>)

\* C17: the upward search ends for every starting path, absolute or
\* relative: with no marker in the path or its parents below "/" (or "."),
\* it returns null after as many checks as the path has segments, and it
\* never looks for the marker in "/" or "." itself.
UpwardSearchTerminates ==
    located.done =>
        LET r == located.cargo
            p == located.path
            n == Len(r.checked)
        IN /\ n <= Len(p.segs)
           /\ \A i \in 1..n : r.checked[i].segs # <<>>
           /\ (\A k \in 0..(Len(p.segs) - 1) : ~HasMarker(env, Ancestor(p, k)))
                  => /\ ~r.found
                     /\ r.dir = NoPath
                     /\ n = Len(p.segs)

\* C17's case: from /a/b/c, with a marker in "/" only, three checks are
\* made and the result is null.
UpwardSearchTerminatesWitness ==
    /\ located.done
    /\ located.path = Abs(<<"a", "b", "c">>)
    /\ HasMarker(env, Abs(<<>>))
    /\ ~HasMarker(env, Abs(<<"a", "b", "c">>))
    /\ ~HasMarker(env, Abs(<<"a">>))
    /\ ~located.cargo.found
    /\ Len(located.cargo.checked) = 3

-----------------------------------------------------------------------------
(* The walker and the presentation on their own: one doc root holding a    *)
(* few entries, walked once, and items presented one at a time.            *)
(*                                                                         *)
(*   parsed.op      "none", "walk" after a walk, "present" after a         *)
(*                  presentation                                           *)
(*   parsed.yields  what the walk yielded, each item with the entry it     *)
(*                  came from                                              *)
(*   parsed.input, parsed.ddu   the item presented and what                *)
(*                  docItemToDduItem returned for it                       *)

\* Entries the walked root may hold.
MaxEntries == 2

NotAFile == [isFile |-> FALSE, dir |-> <<"a">>, base |-> <<"d", "e", "html">>]

EntryPool ==
    {Entry(<<>>, <<"struct", "Foo", "html">>),
     Entry(<<>>, <<"x", "struct", "Foo", "html">>),
     Entry(<<>>, <<"foreigntype", "X", "html">>),
     Entry(<<>>, <<"index", "html">>),
     Entry(<<>>, <<"all", "html">>),
     Entry(<<"a">>, <<"index", "html">>),
     Entry(<<"a", "b">>, <<"index", "html">>),
     Entry(<<"a">>, <<"module", "b", "html">>),
     Entry(<<"a", "b">>, <<"fn", "bar", "html">>),
     Entry(<<"src">>, <<"index", "html">>),
     Entry(<<"src", "a">>, <<"lib", "rs", "html">>),
     NotAFile}

\* The walk meets every entry of a directory tree once: the trees are the
\* sequences of distinct entries.
EntryTrees ==
    {t \in UNION {[1..n -> EntryPool] : n \in 0..MaxEntries} :
        \A i, j \in 1..Len(t) : t[i] = t[j] => i = j}

ParseRoot == ProjRoot(1)

ParseEnvs ==
    {StreamEnv("ok", TRUE, AllProjects \cup {StdRoot},
               [r \in {ParseRoot} |-> t], 0) : t \in EntryTrees}

\* Items of the type DocItem: every kind tag, one kind the walker takes
\* from a file name though it is no tag, and the modules null, "", ".",
\* "a" and "a::b".
KindPool == {ITEM_KINDS[i] : i \in 1..Len(ITEM_KINDS)} \cup {"foreigntype"}

DocItemInputs ==
    {DocItem(k, FALSE, <<>>, "Foo", ParseRoot) : k \in KindPool}
    \cup {DocItem(k, TRUE, m, "Foo", ParseRoot) :
              k \in KindPool, m \in {<<>>, <<".">>, <<"a">>, <<"a", "b">>}}

InitParse ==
    /\ env \in ParseEnvs
    /\ located = NotLocated
    /\ cache = NoTree
    /\ walks = NoTree
    /\ streams = <<>>
    /\ parsed = NotParsed

\* One complete iteration of getDocItems(root): each yielded item with
\* the entry that produced it.
Walked(e, root) ==
    LET yielding == SelectSeq(Tree(e, root),
                              LAMBDA en : ParseEntry(root, en) # <<>>)
        items == getDocItems(e, root)
    IN [i \in 1..Len(items) |-> [entry |-> yielding[i], item |-> items[i]]]

WalkRoot ==
    /\ parsed.op = "none"
    /\ parsed' = [op |-> "walk", yields |-> Walked(env, ParseRoot),
                  input |-> <<>>, ddu |-> <<>>]
    /\ UNCHANGED <<env, located, cache, walks, streams>>

Present(a) ==
    /\ parsed.op = "none"
    /\ parsed' = [op |-> "present", yields |-> <<>>,
                  input |-> <<a>>, ddu |-> <<docItemToDduItem(a)>>]
    /\ UNCHANGED <<env, located, cache, walks, streams>>

NextParse ==
    \/ WalkRoot
    \/ \E a \in DocItemInputs : Present(a)

SpecParse == InitParse /\ [][NextParse]_vars

-----------------------------------------------------------------------------
(* Properties of the walker and of the presentation.                       *)

\* The entries of the walked root, and what the walk yielded for one.
WalkedEntries == {Tree(env, ParseRoot)[i] : i \in 1..Len(Tree(env, ParseRoot))}

YieldsOf(en) == SelectSeq(parsed.yields, LAMBDA y : y.entry = en)

\* A file named <kind>.<name>.html that is no index.html.
IsKindFile(en) ==
    /\ en.isFile
    /\ Len(en.base) = 3
    /\ en.base[3] = "html"

\* C11: a file <kind>.<name>.html outside src/ yields the item of that
\* kind and name whose module is its directory: "a::b" in a/b, and the
\* empty string, not null, directly in the root.
TopLevelModuleEmpty ==
    parsed.op = "walk" =>
        \A en \in WalkedEntries :
            (IsKindFile(en) /\ (en.dir = <<>> \/ en.dir[1] # "src")) =>
                YieldsOf(en) =
                    <<[entry |-> en,
                       item |-> DocItem(en.base[1], TRUE, en.dir,
                                        en.base[2], ParseRoot)]>>

IsIndexFile(en) == en.isFile /\ en.base = <<"index", "html">>

UnderSrc(en) == en.dir # <<>> /\ en.dir[1] = "src"

\* What a module page d1/.../dk/index.html is to yield: nothing for the
\* root's own page, else the module dk of d1::...::d(k-1), null for k = 1.
ModulePageYields(en) ==
    LET k == Len(en.dir) IN
    IF k = 0 THEN <<>>
    ELSE <<[entry |-> en,
            item |-> DocItem("module", k > 1, SubSeq(en.dir, 1, k - 1),
                             en.dir[k], ParseRoot)]>>

\* C12 as stated: every index.html d1/.../dk/index.html with k >= 1
\* yields exactly one item, the module dk of d1::...::d(k-1) (null when
\* k = 1), and the root's own index.html yields none.
ModulePagesAllYield ==
    parsed.op = "walk" =>
        \A en \in WalkedEntries :
            IsIndexFile(en) => YieldsOf(en) = ModulePageYields(en)

\* C12: every index.html d1/.../dk/index.html with k >= 1 and d1 other
\* than "src" yields exactly one item, the module dk of d1::...::d(k-1)
\* (null when k = 1); the root's own index.html and every index.html
\* under src/ yield none.
ModulePagesOutsideSrc ==
    parsed.op = "walk" =>
        \A en \in WalkedEntries :
            IsIndexFile(en) =>
                YieldsOf(en) = IF UnderSrc(en) THEN <<>>
                               ELSE ModulePageYields(en)

\* C12's case: a walk met a/b/index.html and a/index.html and yielded the
\* module b of a and the module a of null.
ModulePagesOutsideSrcWitness ==
    /\ parsed.op = "walk"
    /\ Len(parsed.yields) = 2
    /\ \E i, j \in 1..2 :
          /\ parsed.yields[i].entry = Entry(<<"a", "b">>, <<"index", "html">>)
          /\ parsed.yields[i].item =
                 DocItem("module", TRUE, <<"a">>, "b", ParseRoot)
          /\ parsed.yields[j].entry = Entry(<<"a">>, <<"index", "html">>)
          /\ parsed.yields[j].item =
                 DocItem("module", FALSE, <<>>, "a", ParseRoot)

\* C13: the items one walk of a root yields are pairwise different: no
\* two files of the root give the same (docRoot, kind, module, name).
NoTwoItemsCollapse ==
    parsed.op = "walk" =>
        \A i, j \in 1..Len(parsed.yields) :
            parsed.yields[i].item = parsed.yields[j].item => i = j

\* C18: getDocItemFilePath of a yielded item is the path of the file the
\* item came from: the root, the file's directory, the file's name.
PathRoundTrip ==
    parsed.op = "walk" =>
        \A i \in 1..Len(parsed.yields) :
            LET y == parsed.yields[i] IN
            getDocItemFilePath(y.item) =
                [dir |-> Join(ParseRoot, y.entry.dir), base |-> y.entry.base]

\* C14: the display is the kind tag, padded to the width of "traitalias",
\* then the module followed by "::" when the module is neither null nor
\* empty and nothing otherwise, then the name; the name column of every
\* item starts at the same offset.
DisplayFormat ==
    parsed.op = "present" =>
        LET a == parsed.input[1]
            d == parsed.ddu[1].display
        IN /\ d.kind = a.kind
           /\ Len(a.kind) + d.padding = Len("traitalias")
           /\ d.prefix = IF a.hasModule /\ a.module # <<>>
                         THEN <<a.module>> ELSE <<>>
           /\ d.name = a.name

-----------------------------------------------------------------------------
(* Properties of a walk the consumer leaves, and of the batches.           *)

\* C15: a first walk that is suspended with no pull() in flight, where
\* only the consumer can make the stream go on, has already filled the
\* bucket of its root with every item of the root; so a consumer that
\* stops pulling leaves no bucket incomplete.
AbandonedWalkCompletes ==
    \A s \in Streams :
        (streams[s].gen = "walk" /\ ~streams[s].pulling) =>
            LET dir == streams[s].docDirs[streams[s].di] IN
            cache[dir] = getDocItems(env, dir)

\* C16: when a full batch is enqueued, the source has been asked for no
\* item beyond those of the batches enqueued so far.
FullBatchEmittedAtOnce ==
    \A s \in Streams :
        streams[s].conv = "full" =>
            Len(streams[s].out) = BUFFER_SIZE * Len(streams[s].chunks)

\* Lines 210, 213 and 247: what the i-th batch handed to the consumer
\* holds now.  Every batch yielded and enqueued is the one array buf.
EnqueuedBatch(st, i) == st.buf

\* C19: every batch handed to the consumer holds what it held when it was
\* enqueued.
DeliveredBatchUnchanged ==
    \A s \in Streams :
        \A i \in 1..Len(streams[s].chunks) :
            EnqueuedBatch(streams[s], i) = streams[s].chunks[i]

-----------------------------------------------------------------------------
(* Monotonicity of the cache.                                              *)

IsPrefix(u, v) == Len(u) <= Len(v) /\ SubSeq(v, 1, Len(u)) = u

\* Stream s takes one step of its generators: these are the only steps
\* that change a stream whose pull() is in flight.
GeneratorStep(s) == streams[s].pulling /\ streams'[s] # streams[s]

\* The root stream s is walking, if any.
WalkedBy(s) ==
    IF streams[s].gen = "walk"
    THEN {streams[s].docDirs[streams[s].di]} ELSE {}

\* C20: no step removes a key; every bucket is a prefix of what it is
\* after the step, and that a prefix of what a walk of its root yields.
\* One step of a query's generators changes at most the bucket of the
\* root the query is walking, by one appended item; a new key starts
\* with an empty bucket.
CacheMonotonic ==
    [][/\ DOMAIN cache \subseteq DOMAIN cache'
       /\ \A r \in DOMAIN cache : IsPrefix(cache[r], cache'[r])
       /\ \A r \in DOMAIN cache' : IsPrefix(cache'[r], getDocItems(env, r))
       /\ \A s \in Streams :
             GeneratorStep(s) =>
                 \A r \in DOMAIN cache' :
                     IF r \notin DOMAIN cache THEN cache'[r] = <<>>
                     ELSE \/ cache'[r] = cache[r]
                          \/ /\ r \in WalkedBy(s)
                             /\ Len(cache'[r]) = Len(cache[r]) + 1]_vars

\* C20's case: two roots have a bucket, one of them is being walked and
\* holds some of its items, not all, and the other holds an item.
CacheMonotonicWitness ==
    \E s \in Streams :
        \E r \in WalkedBy(s) :
            /\ cache[r] # <<>>
            /\ cache[r] # getDocItems(env, r)
            /\ \E q \in DOMAIN cache : q # r /\ cache[q] # <<>>

=============================================================================
